---- MODULE Spec2Model ----
(***************************************************************************)
(* Model of scripts/verify_backfill_websites_from_ibiz.py: the record      *)
(* linkage between the Biznesinfo companies.jsonl (primary dataset) and    *)
(* the iBiz sqlite database (secondary dataset).                           *)
(*                                                                         *)
(* A Python str is a sequence of one-character strings, so that the        *)
(* normalizers work on characters as the code does.  None and "" are both  *)
(* the empty sequence: every read in the code goes through `x or ""`.      *)
(* A dict is a function whose DOMAIN is the key set; an Optional[str] is   *)
(* the empty tuple (None) or a one-element tuple holding the string.       *)
(***************************************************************************)
EXTENDS Integers, Sequences, FiniteSets, TLC

----------------------------------------------------------------------------
(* Characters and string helpers *)

Digits == {"0", "1", "2", "3", "4", "5", "6", "7", "8", "9"}

Whitespace == {" ", "\t"}

UpperChars ==
    <<"A", "B", "C", "D", "E", "F", "G", "H", "I", "J", "K", "L", "M",
      "N", "O", "P", "Q", "R", "S", "T", "U", "V", "W", "X", "Y", "Z">>

LowerChars ==
    <<"a", "b", "c", "d", "e", "f", "g", "h", "i", "j", "k", "l", "m",
      "n", "o", "p", "q", "r", "s", "t", "u", "v", "w", "x", "y", "z">>

LowerMap ==
    [c \in {UpperChars[i] : i \in 1..Len(UpperChars)} |->
        LowerChars[CHOOSE i \in 1..Len(UpperChars) : UpperChars[i] = c]]

LowerChar(c) == IF c \in DOMAIN LowerMap THEN LowerMap[c] ELSE c

\* str.casefold() / str.lower() on the model's (ASCII) alphabet
Casefold(s) == [i \in 1..Len(s) |-> LowerChar(s[i])]

IsDigitChar(c) == c \in Digits

IsSpaceChar(c) == c \in Whitespace

RECURSIVE LStrip(_)
LStrip(s) == IF s # <<>> /\ IsSpaceChar(Head(s)) THEN LStrip(Tail(s)) ELSE s

RECURSIVE RStrip(_)
RStrip(s) ==
    IF s # <<>> /\ IsSpaceChar(s[Len(s)]) THEN RStrip(SubSeq(s, 1, Len(s) - 1)) ELSE s

\* str.strip()
Strip(s) == RStrip(LStrip(s))

StartsWith(s, p) == Len(s) >= Len(p) /\ SubSeq(s, 1, Len(p)) = p

\* str.isdigit(): non-empty and digits only
IsDigitStr(s) == s # <<>> /\ \A i \in 1..Len(s) : IsDigitChar(s[i])

Range(q) == {q[i] : i \in 1..Len(q)}

\* "".join(re.findall(r"\d+", s))
DigitsOf(s) == SelectSeq(s, IsDigitChar)

\* re.sub(r"\s+", " ", s): every run of whitespace becomes one space
RECURSIVE CollapseSpaces(_)
CollapseSpaces(s) ==
    IF s = <<>> THEN <<>>
    ELSE IF IsSpaceChar(Head(s))
         THEN <<" ">> \o CollapseSpaces(LStrip(s))
         ELSE <<Head(s)>> \o CollapseSpaces(Tail(s))

----------------------------------------------------------------------------
(* Program constants *)

IMPORTED_SOURCE_ID_PREFIX == <<"b", "i", "z", "n", "e", "s", "i", "n", "f", "o", "-">>

STRONG_EVIDENCE == {"direct_source_id", "phone", "email", "unp"}

EvidenceTags == STRONG_EVIDENCE \cup {"name_addr"}

MatchTypes == {"no_match", "ambiguous", "auto", "auto_weak_name_addr", "weak_unique"}

MinPhoneDigits == 9

MinUnpDigits == 6

NameAddrSep == <<"|", "|">>

MailtoScheme == <<"m", "a", "i", "l", "t", "o", ":">>

TelScheme == <<"t", "e", "l", ":">>

HttpScheme == <<"h", "t", "t", "p", ":", "/", "/">>

HttpsScheme == <<"h", "t", "t", "p", "s", ":", "/", "/">>

None == <<>>

Some(x) == <<x>>

\* Python truthiness of an Optional[str]: None and "" are falsy
Truthy(opt) == opt # None /\ opt[1] # <<>>

----------------------------------------------------------------------------
(* Normalizer *)

norm_space(value) == CollapseSpaces(Strip(value))

norm_text(value) == Casefold(norm_space(value))

normalize_phone(raw) == DigitsOf(raw)

normalize_email(raw) == Casefold(Strip(raw))

normalize_unp(raw) == DigitsOf(raw)

RECURSIVE UniqFrom(_, _)
UniqFrom(values, seen) ==
    IF values = <<>> THEN <<>>
    ELSE LET s == Strip(Head(values)) IN
         IF s = <<>> \/ s \in seen
         THEN UniqFrom(Tail(values), seen)
         ELSE <<s>> \o UniqFrom(Tail(values), seen \cup {s})

uniq_keep_order(values) == UniqFrom(values, {})

HasHttpScheme(s) ==
    StartsWith(Casefold(s), HttpScheme) \/ StartsWith(Casefold(s), HttpsScheme)

\* mutant: the scheme is prepended whether or not the value has one
RECURSIVE WebsitesOut_AlwaysPrefix(_)
WebsitesOut_AlwaysPrefix(values) ==
    IF values = <<>> THEN <<>>
    ELSE LET s == Strip(Head(values)) IN
         IF s = <<>> THEN WebsitesOut_AlwaysPrefix(Tail(values))
         ELSE IF StartsWith(Casefold(s), MailtoScheme) \/ StartsWith(Casefold(s), TelScheme)
         THEN WebsitesOut_AlwaysPrefix(Tail(values))
         ELSE <<HttpsScheme \o s>> \o WebsitesOut_AlwaysPrefix(Tail(values))

RECURSIVE WebsitesOut(_)
WebsitesOut(values) ==
    IF values = <<>> THEN <<>>
    ELSE LET s == Strip(Head(values)) IN
         IF s = <<>> THEN WebsitesOut(Tail(values))
         ELSE IF StartsWith(Casefold(s), MailtoScheme) \/ StartsWith(Casefold(s), TelScheme)
         THEN WebsitesOut(Tail(values))
         ELSE IF ~HasHttpScheme(s)
         THEN <<HttpsScheme \o s>> \o WebsitesOut(Tail(values))
         ELSE <<s>> \o WebsitesOut(Tail(values))

normalize_websites(values) == uniq_keep_order(WebsitesOut(values))

source_prefix(source_id) ==
    LET sid == Strip(source_id) IN
    IF StartsWith(sid, IMPORTED_SOURCE_ID_PREFIX) THEN "biznesinfo-"
    ELSE IF IsDigitStr(sid) THEN "digits"
    ELSE "other"

----------------------------------------------------------------------------
(* Secondary dataset: load_ibiz_companies and build_ibiz_indexes *)

\* the WHERE clause of the SELECT, on a row whose websites_json is a JSON list
RowSelected(row) == row.status = "done" /\ row.websites_json # <<>>

UsablePhone(p) == Len(p) >= MinPhoneDigits

NonEmptyStr(e) == e # <<>>

IbizCompanyOf(row) ==
    [subdomain |-> Strip(row.subdomain),
     name      |-> norm_space(row.name),
     address   |-> norm_space(row.address),
     unp       |-> normalize_unp(row.unp),
     phones    |-> uniq_keep_order(SelectSeq(
                      [i \in 1..Len(row.phones_json) |-> normalize_phone(row.phones_json[i])],
                      UsablePhone)),
     emails    |-> uniq_keep_order(SelectSeq(
                      [i \in 1..Len(row.emails_json) |-> normalize_email(row.emails_json[i])],
                      NonEmptyStr)),
     websites  |-> normalize_websites(row.websites_json)]

RowAdmitted(row) ==
    /\ RowSelected(row)
    /\ Strip(row.subdomain) # <<>>
    /\ normalize_websites(row.websites_json) # <<>>

RECURSIVE LoadRows(_, _)
LoadRows(rs, out) ==
    IF rs = <<>> THEN out
    ELSE LET row == Head(rs) IN
         IF RowAdmitted(row)
         THEN LoadRows(Tail(rs),
                       (Strip(row.subdomain) :> IbizCompanyOf(row)) @@ out)
         ELSE LoadRows(Tail(rs), out)

load_ibiz_companies(rs) == LoadRows(rs, <<>>)

\* mutant: the threshold is off by one
UnpIndexable_OffByOne(company) == Len(company.unp) >= MinUnpDigits - 1

UnpIndexable(company) == Len(company.unp) >= MinUnpDigits

NameAddrKey(name, address) == norm_text(name) \o NameAddrSep \o norm_text(address)

\* mutant: index[key] = subdomain, a later record replaces an earlier one under a key
InvertedIndex_Overwrite(keys_of) ==
    [k \in UNION {keys_of[sub] : sub \in DOMAIN keys_of} |->
        {CHOOSE sub \in DOMAIN keys_of : k \in keys_of[sub]}]

\* index[key].add(subdomain) for every key of every subdomain, index a
\* defaultdict(set): each key -> the subdomains that contribute it
InvertedIndex(keys_of) ==
    [k \in UNION {keys_of[sub] : sub \in DOMAIN keys_of} |->
        {sub \in DOMAIN keys_of : k \in keys_of[sub]}]

PhoneKeys(company) == Range(company.phones)

EmailKeys(company) == Range(company.emails)

UnpKeys(company) == IF UnpIndexable(company) THEN {company.unp} ELSE {}

NameAddrKeys(company) ==
    LET key == NameAddrKey(company.name, company.address) IN
    IF key # NameAddrSep THEN {key} ELSE {}

build_ibiz_indexes(companies) ==
    [by_phone     |-> InvertedIndex([sub \in DOMAIN companies |-> PhoneKeys(companies[sub])]),
     by_email     |-> InvertedIndex([sub \in DOMAIN companies |-> EmailKeys(companies[sub])]),
     by_unp       |-> InvertedIndex([sub \in DOMAIN companies |-> UnpKeys(companies[sub])]),
     by_name_addr |-> InvertedIndex([sub \in DOMAIN companies |->
                                       NameAddrKeys(companies[sub])])]

----------------------------------------------------------------------------
(* CandidateCollector and MatchDecider *)

\* dict.get(key, set())
Lookup(index, key) == IF key \in DOMAIN index THEN index[key] ELSE {}

\* mutant: candidates[subdomain] = {tag}, the tags of the earlier signals are lost
AddTag_Replace(candidates, subs, tag) ==
    [s \in DOMAIN candidates \cup subs |->
        IF s \in subs THEN {tag} ELSE candidates[s]]

\* candidates[subdomain].add(tag) for every subdomain of subs
AddTag(candidates, subs, tag) ==
    [s \in DOMAIN candidates \cup subs |->
        (IF s \in DOMAIN candidates THEN candidates[s] ELSE {})
        \cup (IF s \in subs THEN {tag} ELSE {})]

DirectSubs(company, ibiz) ==
    LET sid == Strip(company.source_id) IN
    IF sid # <<>> /\ sid \in DOMAIN ibiz THEN {sid} ELSE {}

\* mutant: the raw phone is looked up, not its digits
PhoneSubs_Raw(company, idx) ==
    UNION {Lookup(idx.by_phone, company.phones[i]) :
             i \in {j \in 1..Len(company.phones) :
                      Len(normalize_phone(company.phones[j])) >= MinPhoneDigits}}

PhoneSubs(company, idx) ==
    UNION {Lookup(idx.by_phone, normalize_phone(company.phones[i])) :
             i \in {j \in 1..Len(company.phones) :
                      Len(normalize_phone(company.phones[j])) >= MinPhoneDigits}}

EmailSubs(company, idx) ==
    UNION {Lookup(idx.by_email, normalize_email(company.emails[i])) :
             i \in {j \in 1..Len(company.emails) :
                      normalize_email(company.emails[j]) # <<>>}}

UnpSubs(company, idx) ==
    LET unp == normalize_unp(company.unp) IN
    IF Len(unp) >= MinUnpDigits THEN Lookup(idx.by_unp, unp) ELSE {}

\* mutant: the address is left out of the comparison
NameAddrSubs_NameOnly(company, idx) ==
    UNION {idx.by_name_addr[key] :
             key \in {x \in DOMAIN idx.by_name_addr :
                        StartsWith(x, norm_text(company.name) \o NameAddrSep)}}

NameAddrSubs(company, idx) ==
    LET key == NameAddrKey(company.name, company.address) IN
    IF key # NameAddrSep THEN Lookup(idx.by_name_addr, key) ELSE {}

collect_candidates(company, ibiz, idx) ==
    LET c1 == AddTag(<<>>, DirectSubs(company, ibiz), "direct_source_id")
        c2 == AddTag(c1, PhoneSubs(company, idx), "phone")
        c3 == AddTag(c2, EmailSubs(company, idx), "email")
        c4 == AddTag(c3, UnpSubs(company, idx), "unp")
    IN  AddTag(c4, NameAddrSubs(company, idx), "name_addr")

MatchDecision(source_id, name, address, cands, mtype, auto) ==
    [source_id             |-> source_id,
     name                  |-> name,
     address               |-> address,
     source_prefix         |-> source_prefix(source_id),
     evidence_by_candidate |-> cands,
     match_type            |-> mtype,
     auto_candidate        |-> auto]

\* mutant: any evidence at all counts as strong
IsStrong_AnyEvidence(evidence) == evidence # {}

IsStrong(evidence) == evidence \cap STRONG_EVIDENCE # {}

IsWeakAuto(evidence, allow_weak_name_address) ==
    allow_weak_name_address /\ evidence = {"name_addr"}

\* mutant: off by one, two candidates are not yet ambiguous
IsAmbiguous_OffByOne(candidates) == Cardinality(DOMAIN candidates) > 2

IsAmbiguous(candidates) == Cardinality(DOMAIN candidates) > 1

decide_match(source_id, name, address, candidates, allow_weak_name_address) ==
    IF DOMAIN candidates = {}
    THEN MatchDecision(source_id, name, address, <<>>, "no_match", None)
    ELSE IF IsAmbiguous(candidates)
    THEN MatchDecision(source_id, name, address, candidates, "ambiguous", None)
    ELSE LET only_candidate == CHOOSE s \in DOMAIN candidates : TRUE
             evidence == candidates[only_candidate]
         IN  IF IsStrong(evidence)
             THEN MatchDecision(source_id, name, address, candidates, "auto",
                                Some(only_candidate))
             ELSE IF IsWeakAuto(evidence, allow_weak_name_address)
             THEN MatchDecision(source_id, name, address, candidates,
                                "auto_weak_name_addr", Some(only_candidate))
             ELSE MatchDecision(source_id, name, address, candidates, "weak_unique", None)

----------------------------------------------------------------------------
(* Input data: raw rows of the iBiz `companies` table and raw lines of          *)
(* companies.jsonl, as fixtures the datasets are drawn from                     *)

IbizRow(status, subdomain, name, address, unp, phones, emails, websites) ==
    [status |-> status, subdomain |-> subdomain, name |-> name, address |-> address,
     unp |-> unp, phones_json |-> phones, emails_json |-> emails,
     websites_json |-> websites]

CompanyLine(source_id, name, address, unp, phones, emails, websites) ==
    [kind |-> "record", source_id |-> source_id, name |-> name, address |-> address,
     unp |-> unp, phones |-> phones, emails |-> emails, websites |-> websites]

\* a line main and apply_backfill skip: empty after strip(), or rejected by json.loads
BlankLine == [kind |-> "blank"]

IsRecord(line) == line.kind = "record"

\* The comment above a fixture spells its strings out, in the order of the
\* constructor's parameters ('' is also the empty list).

sub_a1 == <<"a", "1">>

sub_b2 == <<"b", "2">>

\* row_a1: done, 'a1', 'Acme  LLC', ' Minsk', 'UNP 100200', ['+375 29 1234567'], ['
\* Info@A.by '], ['example.by']
row_a1 ==
    IbizRow("done", <<"a", "1">>, <<"A", "c", "m", "e", " ", " ", "L", "L", "C">>, <<" ", "M", "i", "n", "s", "k">>, <<"U", "N", "P", " ", "1", "0", "0", "2", "0", "0">>,
            <<<<"+", "3", "7", "5", " ", "2", "9", " ", "1", "2", "3", "4", "5", "6", "7">>>>,
            <<<<" ", "I", "n", "f", "o", "@", "A", ".", "b", "y", " ">>>>,
            <<<<"e", "x", "a", "m", "p", "l", "e", ".", "b", "y">>>>)
\* row_b2_twin: done, 'b2', 'ACME LLC', 'MINSK', '12345', ['375291234567'], '',
\* ['HTTP://b.by', 'b.by']
row_b2_twin ==
    IbizRow("done", <<"b", "2">>, <<"A", "C", "M", "E", " ", "L", "L", "C">>, <<"M", "I", "N", "S", "K">>, <<"1", "2", "3", "4", "5">>,
            <<<<"3", "7", "5", "2", "9", "1", "2", "3", "4", "5", "6", "7">>>>,
            <<>>,
            <<<<"H", "T", "T", "P", ":", "/", "/", "b", ".", "b", "y">>, <<"b", ".", "b", "y">>>>)
\* row_b2_other: done, ' b2', 'Zeta', '', '100-200', ['80171112233', '1234567'], [' '],
\* ['https://example.by', 'example.by']
row_b2_other ==
    IbizRow("done", <<" ", "b", "2">>, <<"Z", "e", "t", "a">>, <<>>, <<"1", "0", "0", "-", "2", "0", "0">>,
            <<<<"8", "0", "1", "7", "1", "1", "1", "2", "2", "3", "3">>, <<"1", "2", "3", "4", "5", "6", "7">>>>,
            <<<<" ">>>>,
            <<<<"h", "t", "t", "p", "s", ":", "/", "/", "e", "x", "a", "m", "p", "l", "e", ".", "b", "y">>, <<"e", "x", "a", "m", "p", "l", "e", ".", "b", "y">>>>)
\* row_b2_nameonly: done, 'b2', 'acme llc', 'minsk', '', '', '', ['HTTP://b.by']
row_b2_nameonly ==
    IbizRow("done", <<"b", "2">>, <<"a", "c", "m", "e", " ", "l", "l", "c">>, <<"m", "i", "n", "s", "k">>, <<>>,
            <<>>,
            <<>>,
            <<<<"H", "T", "T", "P", ":", "/", "/", "b", ".", "b", "y">>>>)
\* row_a1_mailto: done, 'a1', 'Acme LLC', 'Minsk', '100200', ['375291234567'], '',
\* ['mailto:a@a.by', 'Tel:123', ' ']
row_a1_mailto ==
    IbizRow("done", <<"a", "1">>, <<"A", "c", "m", "e", " ", "L", "L", "C">>, <<"M", "i", "n", "s", "k">>, <<"1", "0", "0", "2", "0", "0">>,
            <<<<"3", "7", "5", "2", "9", "1", "2", "3", "4", "5", "6", "7">>>>,
            <<>>,
            <<<<"m", "a", "i", "l", "t", "o", ":", "a", "@", "a", ".", "b", "y">>, <<"T", "e", "l", ":", "1", "2", "3">>, <<" ">>>>)
\* row_blank_sub: done, ' ', 'Acme LLC', 'Minsk', '100200', ['375291234567'], '',
\* ['example.by']
row_blank_sub ==
    IbizRow("done", <<" ">>, <<"A", "c", "m", "e", " ", "L", "L", "C">>, <<"M", "i", "n", "s", "k">>, <<"1", "0", "0", "2", "0", "0">>,
            <<<<"3", "7", "5", "2", "9", "1", "2", "3", "4", "5", "6", "7">>>>,
            <<>>,
            <<<<"e", "x", "a", "m", "p", "l", "e", ".", "b", "y">>>>)
\* row_new: new, 'a1', 'Acme LLC', 'Minsk', '100200', ['375291234567'], '',
\* ['example.by']
row_new ==
    IbizRow("new", <<"a", "1">>, <<"A", "c", "m", "e", " ", "L", "L", "C">>, <<"M", "i", "n", "s", "k">>, <<"1", "0", "0", "2", "0", "0">>,
            <<<<"3", "7", "5", "2", "9", "1", "2", "3", "4", "5", "6", "7">>>>,
            <<>>,
            <<<<"e", "x", "a", "m", "p", "l", "e", ".", "b", "y">>>>)
\* row_a1_bare: done, 'a1', '', '', '', '', '', ['example.by']
row_a1_bare ==
    IbizRow("done", <<"a", "1">>, <<>>, <<>>, <<>>,
            <<>>,
            <<>>,
            <<<<"e", "x", "a", "m", "p", "l", "e", ".", "b", "y">>>>)
RowPool ==
    {row_a1, row_b2_twin, row_b2_other, row_b2_nameonly, row_a1_mailto, row_blank_sub,
     row_new, row_a1_bare}

RowPoolMain == {row_a1, row_b2_other}

\* q_phone: '77', '', '', '', ['375291234567'], '', ''
q_phone ==
    CompanyLine(<<"7", "7">>, <<>>, <<>>, <<>>,
                <<<<"3", "7", "5", "2", "9", "1", "2", "3", "4", "5", "6", "7">>>>,
                <<>>,
                <<>>)
\* q_direct: ' a1 ', '', '', '', '', '', ''
q_direct ==
    CompanyLine(<<" ", "a", "1", " ">>, <<>>, <<>>, <<>>,
                <<>>,
                <<>>,
                <<>>)
\* q_nameaddr: '77', ' acme   llc', 'Minsk ', '', '', '', ''
q_nameaddr ==
    CompanyLine(<<"7", "7">>, <<" ", "a", "c", "m", "e", " ", " ", " ", "l", "l", "c">>, <<"M", "i", "n", "s", "k", " ">>, <<>>,
                <<>>,
                <<>>,
                <<>>)
\* q_unp_email: '78', '', '', 'unp100200', '', ['INFO@a.by'], ''
q_unp_email ==
    CompanyLine(<<"7", "8">>, <<>>, <<>>, <<"u", "n", "p", "1", "0", "0", "2", "0", "0">>,
                <<>>,
                <<<<"I", "N", "F", "O", "@", "a", ".", "b", "y">>>>,
                <<>>)
\* q_empty: '77', '', '', '', '', '', ''
q_empty ==
    CompanyLine(<<"7", "7">>, <<>>, <<>>, <<>>,
                <<>>,
                <<>>,
                <<>>)
\* q_unusable: '77', 'zz', '', '12345', ['1234567'], [' '], ''
q_unusable ==
    CompanyLine(<<"7", "7">>, <<"z", "z">>, <<>>, <<"1", "2", "3", "4", "5">>,
                <<<<"1", "2", "3", "4", "5", "6", "7">>>>,
                <<<<" ">>>>,
                <<>>)
\* q_phone_b: '77', '', '', '', ['1234567', '8 017 111-22-33'], '', ''
q_phone_b ==
    CompanyLine(<<"7", "7">>, <<>>, <<>>, <<>>,
                <<<<"1", "2", "3", "4", "5", "6", "7">>, <<"8", " ", "0", "1", "7", " ", "1", "1", "1", "-", "2", "2", "-", "3", "3">>>>,
                <<>>,
                <<>>)
\* q_all: 'a1', 'Acme LLC', 'minsk', '100200', ['375291234567'], ['info@a.by'], ''
q_all ==
    CompanyLine(<<"a", "1">>, <<"A", "c", "m", "e", " ", "L", "L", "C">>, <<"m", "i", "n", "s", "k">>, <<"1", "0", "0", "2", "0", "0">>,
                <<<<"3", "7", "5", "2", "9", "1", "2", "3", "4", "5", "6", "7">>>>,
                <<<<"i", "n", "f", "o", "@", "a", ".", "b", "y">>>>,
                <<>>)
\* q_phone_and_name: '78', 'zeta', '', '', ['+375 29 1234567'], '', ''
q_phone_and_name ==
    CompanyLine(<<"7", "8">>, <<"z", "e", "t", "a">>, <<>>, <<>>,
                <<<<"+", "3", "7", "5", " ", "2", "9", " ", "1", "2", "3", "4", "5", "6", "7">>>>,
                <<>>,
                <<>>)
\* q_other_addr: '77', 'Acme LLC', 'Gomel', '', '', '', ''
q_other_addr ==
    CompanyLine(<<"7", "7">>, <<"A", "c", "m", "e", " ", "L", "L", "C">>, <<"G", "o", "m", "e", "l">>, <<>>,
                <<>>,
                <<>>,
                <<>>)

QueryPool ==
    {q_phone, q_direct, q_nameaddr, q_unp_email, q_empty, q_unusable, q_phone_b, q_all,
     q_phone_and_name, q_other_addr}

\* l_phone_a: '77', '', '', '', ['375291234567'], '', ''
l_phone_a ==
    CompanyLine(<<"7", "7">>, <<>>, <<>>, <<>>,
                <<<<"3", "7", "5", "2", "9", "1", "2", "3", "4", "5", "6", "7">>>>,
                <<>>,
                <<>>)
\* l_phone_b: '77', '', '', '', ['80171112233'], '', ['mailto:a@a.by']
l_phone_b ==
    CompanyLine(<<"7", "7">>, <<>>, <<>>, <<>>,
                <<<<"8", "0", "1", "7", "1", "1", "1", "2", "2", "3", "3">>>>,
                <<>>,
                <<<<"m", "a", "i", "l", "t", "o", ":", "a", "@", "a", ".", "b", "y">>>>)
\* l_unp: '78', '', '', '100200', '', '', ''
l_unp ==
    CompanyLine(<<"7", "8">>, <<>>, <<>>, <<"1", "0", "0", "2", "0", "0">>,
                <<>>,
                <<>>,
                <<>>)
\* l_has_site: '77', '', '', '', ['375291234567'], '', ['x.by']
l_has_site ==
    CompanyLine(<<"7", "7">>, <<>>, <<>>, <<>>,
                <<<<"3", "7", "5", "2", "9", "1", "2", "3", "4", "5", "6", "7">>>>,
                <<>>,
                <<<<"x", ".", "b", "y">>>>)
\* l_name: '77', 'zeta', '', '', '', '', ''
l_name ==
    CompanyLine(<<"7", "7">>, <<"z", "e", "t", "a">>, <<>>, <<>>,
                <<>>,
                <<>>,
                <<>>)
LinePoolMain ==
    {l_phone_a, l_phone_b, l_unp, l_has_site, l_name, BlankLine}

\* records without an identifier
\* l_noid_phone: '', '', '', '', ['375291234567'], '', ''
l_noid_phone ==
    CompanyLine(<<>>, <<>>, <<>>, <<>>,
                <<<<"3", "7", "5", "2", "9", "1", "2", "3", "4", "5", "6", "7">>>>,
                <<>>,
                <<>>)
\* l_noid_name: ' ', 'zeta', '', '', '', '', ''
l_noid_name ==
    CompanyLine(<<" ">>, <<"z", "e", "t", "a">>, <<>>, <<>>,
                <<>>,
                <<>>,
                <<>>)
\* records that share an identifier, and records that have none
LinePoolDup == {l_noid_phone, l_noid_name, l_phone_a, l_name}

\* rows and queries whose name or address holds the character "|"
\* row_bar_name: done, 'a1', 'Alfa||Beta', 'Minsk', '', '', '', ['example.by']
row_bar_name ==
    IbizRow("done", <<"a", "1">>, <<"A", "l", "f", "a", "|", "|", "B", "e", "t", "a">>, <<"M", "i", "n", "s", "k">>, <<>>,
            <<>>,
            <<>>,
            <<<<"e", "x", "a", "m", "p", "l", "e", ".", "b", "y">>>>)
\* row_bar_addr: done, 'b2', 'Alfa', 'Beta||Minsk', '', '', '', ['b.by']
row_bar_addr ==
    IbizRow("done", <<"b", "2">>, <<"A", "l", "f", "a">>, <<"B", "e", "t", "a", "|", "|", "M", "i", "n", "s", "k">>, <<>>,
            <<>>,
            <<>>,
            <<<<"b", ".", "b", "y">>>>)
\* row_bar_end: done, 'c3', 'Alfa|', 'Beta', '', '', '', ['c.by']
row_bar_end ==
    IbizRow("done", <<"c", "3">>, <<"A", "l", "f", "a", "|">>, <<"B", "e", "t", "a">>, <<>>,
            <<>>,
            <<>>,
            <<<<"c", ".", "b", "y">>>>)
BarRowPool == {row_bar_name, row_bar_addr, row_bar_end, row_a1}

\* q_bar_name: '77', 'alfa||beta', 'minsk', '', '', '', ''
q_bar_name ==
    CompanyLine(<<"7", "7">>, <<"a", "l", "f", "a", "|", "|", "b", "e", "t", "a">>, <<"m", "i", "n", "s", "k">>, <<>>,
                <<>>,
                <<>>,
                <<>>)
\* q_bar_start: '77', 'ALFA', '|Beta', '', '', '', ''
q_bar_start ==
    CompanyLine(<<"7", "7">>, <<"A", "L", "F", "A">>, <<"|", "B", "e", "t", "a">>, <<>>,
                <<>>,
                <<>>,
                <<>>)
BarQueryFiles == {<<q_bar_name>>, <<q_bar_start>>, <<q_nameaddr>>}

----------------------------------------------------------------------------
(* main: the per-line resolution, the aggregation and the backfill writer *)

\* collections.Counter: counter[key] += by
IncBy(counter, key, by) ==
    [k \in DOMAIN counter \cup {key} |->
        (IF k \in DOMAIN counter THEN counter[k] ELSE 0) + (IF k = key THEN by ELSE 0)]

Inc(counter, key) == IncBy(counter, key, 1)

\* a line main and apply_backfill read as an object: non-blank and valid JSON
ParsedLines(f) == SelectSeq(f, IsRecord)

\* `if websites: continue`
MissingWebsites(obj) == normalize_websites(obj.websites) = <<>>

\* mutant: the test `args.max_companies and` is lost, so 0 no longer means "all"
CutoffReached_NoZeroCheck(max_companies, ndecisions) == ndecisions >= max_companies

\* `if args.max_companies and len(decisions) >= args.max_companies: continue`
CutoffReached(max_companies, ndecisions) ==
    max_companies # 0 /\ ndecisions >= max_companies

\* collect_candidates followed by decide_match, as the loop body calls them
LineDecision(obj, ibiz, index, allow_weak_name_address) ==
    decide_match(Strip(obj.source_id), norm_space(obj.name), norm_space(obj.address),
                 collect_candidates(obj, ibiz, index), allow_weak_name_address)

\* reason_combo_counts[combo] += 1 for the evidence set of every candidate;
\* the key ",".join(sorted(evidence)) is the evidence set itself
ComboCounts(counter, evidence_by_candidate) ==
    LET combos == {evidence_by_candidate[s] : s \in DOMAIN evidence_by_candidate} IN
    [k \in DOMAIN counter \cup combos |->
        (IF k \in DOMAIN counter THEN counter[k] ELSE 0)
        + Cardinality({s \in DOMAIN evidence_by_candidate : evidence_by_candidate[s] = k})]

\* mutant: the first decision for an identifier keeps its entry
ApprovedAfter_FirstWins(auto_matches, decision) ==
    IF Truthy(decision.auto_candidate)
    THEN auto_matches @@ (decision.source_id :> decision.auto_candidate[1])
    ELSE auto_matches

\* `if decision.auto_candidate: auto_matches[decision.source_id] = ...`
ApprovedAfter(auto_matches, decision) ==
    IF Truthy(decision.auto_candidate)
    THEN (decision.source_id :> decision.auto_candidate[1]) @@ auto_matches
    ELSE auto_matches

EmptyAggregate ==
    [counts |-> <<>>, by_prefix_and_type |-> <<>>, reason_combo_counts |-> <<>>,
     auto_matches |-> <<>>]

\* one iteration of `for decision in decisions`
AggregateStep(a, decision) ==
    [counts              |-> Inc(a.counts, decision.match_type),
     by_prefix_and_type  |-> Inc(a.by_prefix_and_type,
                                 <<decision.source_prefix, decision.match_type>>),
     reason_combo_counts |-> ComboCounts(a.reason_combo_counts,
                                         decision.evidence_by_candidate),
     auto_matches        |-> ApprovedAfter(a.auto_matches, decision)]

\* mutant: `and not current_websites` is lost
ShouldBackfill_IgnoreCurrent(obj, auto_matches) ==
    Strip(obj.source_id) \in DOMAIN auto_matches

\* the test apply_backfill makes before it touches a record
ShouldBackfill(obj, auto_matches) ==
    Strip(obj.source_id) \in DOMAIN auto_matches /\ MissingWebsites(obj)

\* `candidate and candidate.websites`
CandidateHasWebsites(sub, ibiz) == sub \in DOMAIN ibiz /\ ibiz[sub].websites # <<>>

LineUpdated(obj, auto_matches, ibiz) ==
    /\ ShouldBackfill(obj, auto_matches)
    /\ CandidateHasWebsites(auto_matches[Strip(obj.source_id)], ibiz)

\* mutant: a record that is not updated is written back with its websites normalized
BackfillLine_Normalizing(obj, auto_matches, ibiz) ==
    IF LineUpdated(obj, auto_matches, ibiz)
    THEN [obj EXCEPT !.websites = ibiz[auto_matches[Strip(obj.source_id)]].websites]
    ELSE [obj EXCEPT !.websites = normalize_websites(obj.websites)]

BackfillLine(obj, auto_matches, ibiz) ==
    IF LineUpdated(obj, auto_matches, ibiz)
    THEN [obj EXCEPT !.websites = ibiz[auto_matches[Strip(obj.source_id)]].websites]
    ELSE obj

\* the rewritten file and the returned count; blank and unparsable lines are not
\* written back
apply_backfill(f, auto_matches, ibiz) ==
    LET objs == ParsedLines(f) IN
    [file    |-> [k \in 1..Len(objs) |-> BackfillLine(objs[k], auto_matches, ibiz)],
     updated |-> Cardinality({k \in 1..Len(objs) : LineUpdated(objs[k], auto_matches, ibiz)})]

----------------------------------------------------------------------------
(* Bounds and input sets *)

MaxIbizRows == 2

MaxLines == 2

\* companies.jsonl files of MaxLines lines
FilesMain == [1..MaxLines -> LinePoolMain]

FilesDup == [1..MaxLines -> LinePoolDup]

\* companies.jsonl files holding one query record
QueryFiles == {<<q>> : q \in QueryPool}

MaxCompaniesArgs == {0, 1}

CandIdPool == {sub_a1, sub_b2, <<"c", "3">>}

CandidateMaps == UNION {[D -> SUBSET EvidenceTags] : D \in SUBSET CandIdPool}

MaxStrLen == 4

MaxSites == 2

\* whitespace, a digit, an upper-case and a lower-case letter, punctuation
RawAlphabet == {" ", "7", "A", "b", "-"}

\* raw phone and email values
RawStrings == UNION {[1..k -> RawAlphabet] : k \in 0..MaxStrLen}

\* raw website values: '', ' ', 'example.by', ' example.by ', 'https://example.by',
\* 'HTTP://b.by', 'mailto:a@a.by', 'Tel:123', 'https://', 'http:/x.by'
RawSitePool ==
    {<<>>, <<" ">>,
     <<"e", "x", "a", "m", "p", "l", "e", ".", "b", "y">>,
     <<" ", "e", "x", "a", "m", "p", "l", "e", ".", "b", "y", " ">>,
     <<"h", "t", "t", "p", "s", ":", "/", "/", "e", "x", "a", "m", "p", "l", "e", ".", "b", "y">>,
     <<"H", "T", "T", "P", ":", "/", "/", "b", ".", "b", "y">>,
     <<"m", "a", "i", "l", "t", "o", ":", "a", "@", "a", ".", "b", "y">>,
     <<"T", "e", "l", ":", "1", "2", "3">>,
     <<"h", "t", "t", "p", "s", ":", "/", "/">>,
     <<"h", "t", "t", "p", ":", "/", "x", ".", "b", "y">>}

RawSiteLists == UNION {[1..k -> RawSitePool] : k \in 0..MaxSites}

----------------------------------------------------------------------------
(* State *)

VARIABLES
    rows,            \* the rows of the iBiz companies table
    file0,           \* companies.jsonl as main reads it
    args,            \* the parsed command line
    pc,              \* where main is
    ibiz_companies,  \* subdomain -> IbizCompany
    idx,             \* by_phone, by_email, by_unp, by_name_addr
    n,               \* next line of the read loop
    stats,           \* total_companies, missing_websites_total, source_prefix_counts
    decisions,       \* list[MatchDecision]
    j,               \* next decision of the aggregation loop
    agg,             \* counts, by_prefix_and_type, reason_combo_counts, auto_matches
    file,            \* companies.jsonl on disk
    file1,           \* companies.jsonl as the first apply_backfill left it
    passes,          \* calls of apply_backfill so far
    result,          \* the last call's returned count, and whether main printed the note
    slots,           \* line number -> the decision a worker resolved for it
    worder,          \* the order in which the workers resolved the lines
    mk,              \* next line of the final merge
    par,             \* the merged aggregate of the distributed pass
    d_in,            \* a function called on its own: the arguments
    d_out            \* a function called on its own: what it returned

vars ==
    <<rows, file0, args, pc, ibiz_companies, idx, n, stats, decisions, j, agg, file,
      file1, passes, result, slots, worder, mk, par, d_in, d_out>>

inputs == <<rows, file0, args>>

loaded == <<ibiz_companies, idx>>

readvars == <<n, stats, decisions>>

aggvars == <<j, agg>>

applyvars == <<file, file1, passes, result>>

parvars == <<slots, worder, mk, par>>

dvars == <<d_in, d_out>>

NoDecideInput == [candidates |-> <<>>, allow_weak_name_address |-> FALSE, source_id |-> <<>>]

InitMain(rowPool, files, maxArgs, applyArgs) ==
    /\ rows \in [1..MaxIbizRows -> rowPool]
    /\ file0 \in files
    /\ args \in [allow_weak_name_address : BOOLEAN, max_companies : maxArgs,
                 apply : applyArgs]
    /\ pc = "load"
    /\ ibiz_companies = <<>>
    /\ idx = build_ibiz_indexes(<<>>)
    /\ n = 1
    /\ stats = [total_companies |-> 0, missing_websites_total |-> 0,
                source_prefix_counts |-> <<>>]
    /\ decisions = <<>>
    /\ j = 1
    /\ agg = EmptyAggregate
    /\ file = file0
    /\ file1 = <<>>
    /\ passes = 0
    /\ result = [updated |-> 0, note |-> FALSE]
    /\ slots = <<>>
    /\ worder = <<>>
    /\ mk = 1
    /\ par = EmptyAggregate
    /\ d_in = NoDecideInput
    /\ d_out = None

----------------------------------------------------------------------------
(* Actions of main *)

\* ibiz_companies = load_ibiz_companies(ibiz_db)
LoadIbiz ==
    /\ pc = "load"
    /\ ibiz_companies' = load_ibiz_companies(rows)
    /\ pc' = "index"
    /\ UNCHANGED <<inputs, idx, readvars, aggvars, applyvars, parvars, dvars>>

\* by_phone, by_email, by_unp, by_name_addr = build_ibiz_indexes(ibiz_companies)
BuildIndexes ==
    /\ pc = "index"
    /\ idx' = build_ibiz_indexes(ibiz_companies)
    /\ pc' = "read"
    /\ UNCHANGED <<inputs, ibiz_companies, readvars, aggvars, applyvars, parvars, dvars>>

\* one iteration of `for line in f`
ReadLine ==
    /\ pc = "read"
    /\ n <= Len(file0)
    /\ n' = n + 1
    /\ LET obj == file0[n] IN
       IF ~IsRecord(obj)
       THEN UNCHANGED <<stats, decisions>>
       ELSE IF ~MissingWebsites(obj)
       THEN /\ stats' = [stats EXCEPT !.total_companies = @ + 1]
            /\ UNCHANGED decisions
       ELSE /\ stats' = [total_companies |-> stats.total_companies + 1,
                         missing_websites_total |-> stats.missing_websites_total + 1,
                         source_prefix_counts |->
                             Inc(stats.source_prefix_counts,
                                 source_prefix(Strip(obj.source_id)))]
            /\ IF CutoffReached(args.max_companies, Len(decisions))
               THEN UNCHANGED decisions
               ELSE decisions' =
                        Append(decisions,
                               LineDecision(obj, ibiz_companies, idx,
                                            args.allow_weak_name_address))
    /\ UNCHANGED <<inputs, pc, loaded, aggvars, applyvars, parvars, dvars>>

\* the file is exhausted: counts, ..., auto_matches start empty
EndRead ==
    /\ pc = "read"
    /\ n > Len(file0)
    /\ pc' = "aggregate"
    /\ j' = 1
    /\ agg' = EmptyAggregate
    /\ UNCHANGED <<inputs, loaded, readvars, applyvars, parvars, dvars>>

\* one iteration of `for decision in decisions`
Aggregate ==
    /\ pc = "aggregate"
    /\ j <= Len(decisions)
    /\ agg' = AggregateStep(agg, decisions[j])
    /\ j' = j + 1
    /\ UNCHANGED <<inputs, pc, loaded, readvars, applyvars, parvars, dvars>>

\* the report is built and printed; then --apply or the dry run's end
Report ==
    /\ pc = "aggregate"
    /\ j > Len(decisions)
    /\ pc' = IF args.apply THEN "apply" ELSE "done"
    /\ UNCHANGED <<inputs, loaded, readvars, aggvars, applyvars, parvars, dvars>>

\* updated = apply_backfill(...), and the note when updated != len(auto_matches)
ApplyBackfill ==
    /\ pc = "apply"
    /\ LET r == apply_backfill(file, agg.auto_matches, ibiz_companies) IN
       /\ file' = r.file
       /\ file1' = r.file
       /\ result' = [updated |-> r.updated,
                     note |-> r.updated # Cardinality(DOMAIN agg.auto_matches)]
    /\ passes' = 1
    /\ pc' = "done"
    /\ UNCHANGED <<inputs, loaded, readvars, aggvars, parvars, dvars>>

\* apply_backfill called once more on the file it wrote, same map, same companies
ReapplyBackfill ==
    /\ pc = "done"
    /\ passes = 1
    /\ LET r == apply_backfill(file, agg.auto_matches, ibiz_companies) IN
       /\ file' = r.file
       /\ result' = [result EXCEPT !.updated = r.updated]
    /\ passes' = 2
    /\ UNCHANGED <<inputs, pc, loaded, readvars, aggvars, file1, parvars, dvars>>

----------------------------------------------------------------------------
(* The distributed pass of the same loop bodies: every line is resolved by   *)
(* some worker, in any order, against the index main built; the decisions    *)
(* are then merged in file order by the aggregation loop's body.             *)

SequentialPassDone == pc \in {"apply", "done"}

\* the body of the read loop for line k, without the cutoff
WorkerResolve ==
    /\ SequentialPassDone
    /\ \E k \in (1..Len(file0)) \ DOMAIN slots :
         /\ slots' =
              (k :> IF IsRecord(file0[k]) /\ MissingWebsites(file0[k])
                    THEN Some(LineDecision(file0[k], ibiz_companies, idx,
                                           args.allow_weak_name_address))
                    ELSE None) @@ slots
         /\ worder' = Append(worder, k)
    /\ UNCHANGED <<inputs, pc, loaded, readvars, aggvars, applyvars, mk, par, dvars>>

\* the body of the aggregation loop for the decision of line mk
MergeStep ==
    /\ SequentialPassDone
    /\ DOMAIN slots = 1..Len(file0)
    /\ mk <= Len(file0)
    /\ par' = IF slots[mk] # None THEN AggregateStep(par, slots[mk][1]) ELSE par
    /\ mk' = mk + 1
    /\ UNCHANGED <<inputs, pc, loaded, readvars, aggvars, applyvars, slots, worder, dvars>>

Merged == SequentialPassDone /\ DOMAIN slots = 1..Len(file0) /\ mk > Len(file0)

----------------------------------------------------------------------------
(* decide_match on its own, over every candidate mapping *)

InitDecide ==
    /\ rows = <<>>
    /\ file0 = <<>>
    /\ args = [allow_weak_name_address |-> FALSE, max_companies |-> 0, apply |-> FALSE]
    /\ pc = "off"
    /\ ibiz_companies = <<>>
    /\ idx = build_ibiz_indexes(<<>>)
    /\ n = 1
    /\ stats = [total_companies |-> 0, missing_websites_total |-> 0,
                source_prefix_counts |-> <<>>]
    /\ decisions = <<>>
    /\ j = 1
    /\ agg = EmptyAggregate
    /\ file = <<>>
    /\ file1 = <<>>
    /\ passes = 0
    /\ result = [updated |-> 0, note |-> FALSE]
    /\ slots = <<>>
    /\ worder = <<>>
    /\ mk = 1
    /\ par = EmptyAggregate
    /\ d_in \in [candidates : CandidateMaps, allow_weak_name_address : BOOLEAN,
                 source_id : {<<"7", "7">>}]
    /\ d_out = None

Decide ==
    /\ pc = "off"
    /\ d_out = None
    /\ d_out' = Some(decide_match(d_in.source_id, <<>>, <<>>, d_in.candidates,
                                  d_in.allow_weak_name_address))
    /\ UNCHANGED <<inputs, pc, loaded, readvars, aggvars, applyvars, parvars, d_in>>

----------------------------------------------------------------------------
(* The normalizers on their own, each applied to a value and then to its own *)
(* result                                                                    *)

\* main is not running: its variables stay as they are constructed
MainIdle ==
    /\ rows = <<>>
    /\ file0 = <<>>
    /\ args = [allow_weak_name_address |-> FALSE, max_companies |-> 0, apply |-> FALSE]
    /\ ibiz_companies = <<>>
    /\ idx = build_ibiz_indexes(<<>>)
    /\ n = 1
    /\ stats = [total_companies |-> 0, missing_websites_total |-> 0,
                source_prefix_counts |-> <<>>]
    /\ decisions = <<>>
    /\ j = 1
    /\ agg = EmptyAggregate
    /\ file = <<>>
    /\ file1 = <<>>
    /\ passes = 0
    /\ result = [updated |-> 0, note |-> FALSE]
    /\ slots = <<>>
    /\ worder = <<>>
    /\ mk = 1
    /\ par = EmptyAggregate

ApplyNormalizer(fn, value) ==
    IF fn = "normalize_phone" THEN normalize_phone(value)
    ELSE IF fn = "normalize_email" THEN normalize_email(value)
    ELSE normalize_websites(value)

InitNorm ==
    /\ MainIdle
    /\ pc = "norm"
    /\ d_in \in [fn : {"normalize_phone", "normalize_email"}, value : RawStrings]
               \cup [fn : {"normalize_websites"}, value : RawSiteLists]
    /\ d_out = <<>>

\* the normalizer is called on the raw value, then on what it returned
Normalize ==
    /\ pc = "norm"
    /\ Len(d_out) < 2
    /\ d_out' = Append(d_out,
                       ApplyNormalizer(d_in.fn,
                                       IF d_out = <<>> THEN d_in.value ELSE d_out[Len(d_out)]))
    /\ UNCHANGED <<inputs, pc, loaded, readvars, aggvars, applyvars, parvars, d_in>>

----------------------------------------------------------------------------
(* scripts/rewrite_company_exports.py: the legacy brand strings are rewritten *)
(* out of the exported records                                                *)

\* "i" + "biz"
build_legacy_token == <<"i">> \o <<"b", "i", "z">>

\* [build_legacy_token(), "belarus" + "info"]
build_legacy_tokens ==
    <<build_legacy_token,
      <<"b", "e", "l", "a", "r", "u", "s">> \o <<"i", "n", "f", "o">>>>

Biznesinfo == <<"b", "i", "z", "n", "e", "s", "i", "n", "f", "o">>

\* RewriteConfig with main's defaults: --company-path-prefix, --catalog-path-prefix
DefaultCfg ==
    [company_path_prefix |-> <<"/", "c", "o", "m", "p", "a", "n", "y">>,
     catalog_path_prefix |-> <<"/", "c", "a", "t", "a", "l", "o", "g">>]

\* `token in low`
Contains(low, token) ==
    \E i \in 1..(Len(low) - Len(token) + 1) : SubSeq(low, i, i + Len(token) - 1) = token


contains_any_legacy_token(text, legacy_tokens) ==
    LET low == Casefold(text) IN
    \E k \in 1..Len(legacy_tokens) : Contains(low, legacy_tokens[k])

\* re.compile(re.escape(token), flags=re.IGNORECASE).sub("biznesinfo", s): the
\* non-overlapping matches, leftmost first; the replacement is not scanned again
MatchesAt(low, token) ==
    {i \in 1..(Len(low) - Len(token) + 1) : SubSeq(low, i, i + Len(token) - 1) = token}

RECURSIVE PatternSubFrom(_, _, _)
PatternSubFrom(token, s, from) ==
    LET later == {i \in MatchesAt(Casefold(s), token) : i >= from} IN
    IF later = {} THEN SubSeq(s, from, Len(s))
    ELSE LET i == CHOOSE x \in later : \A y \in later : x <= y IN
         SubSeq(s, from, i - 1) \o Biznesinfo \o PatternSubFrom(token, s, i + Len(token))

PatternSub(token, s) == PatternSubFrom(token, s, 1)

\* `for pattern in legacy_token_res: out = pattern.sub("biznesinfo", out)`
RECURSIVE replace_legacy_tokens(_, _)
replace_legacy_tokens(text, legacy_tokens) ==
    IF legacy_tokens = <<>> THEN text
    ELSE replace_legacy_tokens(PatternSub(Head(legacy_tokens), text), Tail(legacy_tokens))

\* where the first character of stops is in s; past its end if there is none
FirstOf(s, stops) ==
    LET at == {i \in 1..Len(s) : s[i] \in stops} IN
    IF at = {} THEN Len(s) + 1 ELSE CHOOSE i \in at : \A i2 \in at : i <= i2

\* the part of s before the first character of stops
BeforeFirst(s, stops) ==
    SubSeq(s, 1, FirstOf(s, stops) - 1)

\* the part of s from the first character of stops on
FromFirst(s, stops) ==
    SubSeq(s, FirstOf(s, stops), Len(s))

IsAlphaChar(c) == \E i \in 1..Len(UpperChars) : c = UpperChars[i] \/ c = LowerChars[i]

IsSchemeChar(c) == IsAlphaChar(c) \/ IsDigitChar(c) \/ c \in {"+", "-", "."}

\* urllib.parse.urlparse(value), its scheme and path: the scheme is what stands
\* before the first ":" when that is a letter followed by scheme characters; a
\* "//" after it opens the host, which ends at the first "/", "?" or "#"; the
\* path ends at the first "?" or "#"
urlparse(value) ==
    LET head     == BeforeFirst(value, {":"})
        has      == /\ Len(head) < Len(value)
                    /\ head # <<>>
                    /\ IsAlphaChar(head[1])
                    /\ \A i \in 1..Len(head) : IsSchemeChar(head[i])
        rest     == IF has THEN SubSeq(value, Len(head) + 2, Len(value)) ELSE value
        after    == IF StartsWith(rest, <<"/", "/">>)
                    THEN FromFirst(SubSeq(rest, 3, Len(rest)), {"/", "?", "#"})
                    ELSE rest
    IN  [scheme |-> IF has THEN Casefold(head) ELSE <<>>,
         path   |-> BeforeFirst(after, {"?", "#"})]

normalize_logo_url(raw, legacy_tokens) ==
    LET value  == Strip(raw)
        parsed == urlparse(value)
        v1     == IF parsed.scheme \in {<<"h", "t", "t", "p">>, <<"h", "t", "t", "p", "s">>}
                     /\ parsed.path # <<>>
                  THEN parsed.path ELSE value
        v2     == Strip(BeforeFirst(BeforeFirst(v1, {"?"}), {"#"}))
    IN  IF value = <<>> THEN <<>>
        ELSE IF ~contains_any_legacy_token(value, legacy_tokens) THEN value
        ELSE IF contains_any_legacy_token(v2, legacy_tokens)
        THEN replace_legacy_tokens(v2, legacy_tokens)
        ELSE v2

\* deep_rewrite of a str
deep_rewrite_str(obj, legacy_tokens) ==
    IF contains_any_legacy_token(obj, legacy_tokens)
    THEN replace_legacy_tokens(obj, legacy_tokens)
    ELSE obj

\* deep_rewrite of a list of dicts of str
deep_rewrite_dicts(obj, legacy_tokens) ==
    [i \in 1..Len(obj) |->
        [k \in DOMAIN obj[i] |-> deep_rewrite_str(obj[i][k], legacy_tokens)]]

\* deep_rewrite of a company: every str value, at any depth; the keys stay
deep_rewrite(obj, legacy_tokens) ==
    [kind       |-> obj.kind,
     source     |-> deep_rewrite_str(obj.source, legacy_tokens),
     source_id  |-> deep_rewrite_str(obj.source_id, legacy_tokens),
     source_url |-> deep_rewrite_str(obj.source_url, legacy_tokens),
     logo_url   |-> deep_rewrite_str(obj.logo_url, legacy_tokens),
     websites   |-> [i \in 1..Len(obj.websites) |->
                        deep_rewrite_str(obj.websites[i], legacy_tokens)],
     name       |-> deep_rewrite_str(obj.name, legacy_tokens),
     categories |-> deep_rewrite_dicts(obj.categories, legacy_tokens),
     rubrics    |-> deep_rewrite_dicts(obj.rubrics, legacy_tokens)]

\* `cat["url"] = f"{cfg.catalog_path_prefix}/{slug}"` for every dict with a slug
CatalogUrls(cats, cfg) ==
    [i \in 1..Len(cats) |->
        IF Strip(cats[i].slug) # <<>>
        THEN [cats[i] EXCEPT !.url = cfg.catalog_path_prefix \o <<"/">> \o Strip(cats[i].slug)]
        ELSE cats[i]]

\* `if source in legacy_tokens: company["source"] = "biznesinfo"`
WithSource(company, legacy_tokens) ==
    IF Casefold(Strip(company.source)) \in Range(legacy_tokens)
    THEN [company EXCEPT !.source = Biznesinfo]
    ELSE company

\* the company and the local source_id after
\* `if source_id and contains_any_legacy_token(source_id, legacy_tokens): ...`
WithSourceId(company, legacy_tokens) ==
    LET sid == Strip(company.source_id) IN
    IF sid # <<>> /\ contains_any_legacy_token(sid, legacy_tokens)
    THEN [company   |-> [company EXCEPT
                            !.source_id = replace_legacy_tokens(sid, legacy_tokens)],
          source_id |-> replace_legacy_tokens(sid, legacy_tokens)]
    ELSE [company |-> company, source_id |-> sid]

\* `company["source_url"] = f"{cfg.company_path_prefix}/{source_id}"`, or "" for a
\* source_url that holds a legacy token
WithSourceUrl(st, cfg, legacy_tokens) ==
    IF Strip(st.company.source) = Biznesinfo /\ st.source_id # <<>>
    THEN [st.company EXCEPT !.source_url =
             cfg.company_path_prefix \o <<"/">> \o st.source_id]
    ELSE IF contains_any_legacy_token(Strip(st.company.source_url), legacy_tokens)
    THEN [st.company EXCEPT !.source_url = <<>>]
    ELSE st.company

\* logo_url, websites, categories and rubrics
WithLists(company, cfg, legacy_tokens) ==
    LET Clean(w) == ~contains_any_legacy_token(w, legacy_tokens) IN
    [company EXCEPT !.logo_url = normalize_logo_url(company.logo_url, legacy_tokens),
                    !.websites = SelectSeq(company.websites, Clean),
                    !.categories = CatalogUrls(company.categories, cfg),
                    !.rubrics = CatalogUrls(company.rubrics, cfg)]

rewrite_company(company, cfg, legacy_tokens) ==
    deep_rewrite(
        WithLists(
            WithSourceUrl(
                WithSourceId(WithSource(company, legacy_tokens), legacy_tokens),
                cfg, legacy_tokens),
            cfg, legacy_tokens),
        legacy_tokens)

\* json.dumps of a str; the model's strings hold no character that is escaped
JsonString(s) == <<"\"">> \o s \o <<"\"">>

RECURSIVE JoinComma(_)
JoinComma(parts) ==
    IF parts = <<>> THEN <<>>
    ELSE IF Len(parts) = 1 THEN parts[1]
    ELSE parts[1] \o <<",">> \o JoinComma(Tail(parts))

JsonList(parts) == <<"[">> \o JoinComma(parts) \o <<"]">>

JsonStrings(items) == JsonList([i \in 1..Len(items) |-> JsonString(items[i])])

JsonPair(key, json) == JsonString(key) \o <<":">> \o json

JsonCatalog(cats) ==
    JsonList([i \in 1..Len(cats) |->
        <<"{">> \o JoinComma(<<JsonPair(<<"s", "l", "u", "g">>, JsonString(cats[i].slug)),
                               JsonPair(<<"u", "r", "l">>, JsonString(cats[i].url))>>) \o <<"}">>])

\* json.dumps(obj, ensure_ascii=False, separators=(",", ":")), the keys in the
\* order the line had them
json_dumps(obj) ==
    IF obj.kind = "list" THEN JsonStrings(obj.items)
    ELSE <<"{">> \o JoinComma(<<
             JsonPair(<<"s", "o", "u", "r", "c", "e">>, JsonString(obj.source)),
             JsonPair(<<"s", "o", "u", "r", "c", "e", "_", "i", "d">>, JsonString(obj.source_id)),
             JsonPair(<<"s", "o", "u", "r", "c", "e", "_", "u", "r", "l">>, JsonString(obj.source_url)),
             JsonPair(<<"l", "o", "g", "o", "_", "u", "r", "l">>, JsonString(obj.logo_url)),
             JsonPair(<<"w", "e", "b", "s", "i", "t", "e", "s">>, JsonStrings(obj.websites)),
             JsonPair(<<"n", "a", "m", "e">>, JsonString(obj.name)),
             JsonPair(<<"c", "a", "t", "e", "g", "o", "r", "i", "e", "s">>, JsonCatalog(obj.categories)),
             JsonPair(<<"r", "u", "b", "r", "i", "c", "s">>, JsonCatalog(obj.rubrics))>>) \o <<"}">>

\* a line of an export that json.loads reads as a dict
ExportCompany(source, source_id, source_url, logo_url, websites, name, categories, rubrics) ==
    [kind |-> "company", source |-> source, source_id |-> source_id,
     source_url |-> source_url, logo_url |-> logo_url, websites |-> websites,
     name |-> name, categories |-> categories, rubrics |-> rubrics]

\* a line that json.loads reads as a list of str
ExportList(items) == [kind |-> "list", items |-> items]

\* '', ' IBiz ', 'biznesinfo'
SourcePool ==
    {<<>>,
     <<" ", "I", "B", "i", "z", " ">>,
     <<"b", "i", "z", "n", "e", "s", "i", "n", "f", "o">>}

\* '77', ' ibiz-5 ', 'iiiibiz'
SourceIdPool ==
    {<<"7", "7">>,
     <<" ", "i", "b", "i", "z", "-", "5", " ">>,
     <<"i", "i", "i", "i", "b", "i", "z">>}

\* '', 'https://ibiz.by/c/5'
SourceUrlPool ==
    {<<>>,
     <<"h", "t", "t", "p", "s", ":", "/", "/", "i", "b", "i", "z", ".", "b", "y", "/", "c", "/", "5">>}

\* '', 'https://ibiz.by/logo.png?v=1#x', '/img/IBIZ/l.png', 'HTTP://cdn.by/iiibiz.png'
LogoUrlPool ==
    {<<>>,
     <<"h", "t", "t", "p", "s", ":", "/", "/", "i", "b", "i", "z", ".", "b", "y", "/", "l", "o", "g", "o", ".", "p", "n", "g", "?", "v", "=", "1", "#", "x">>,
     <<"/", "i", "m", "g", "/", "I", "B", "I", "Z", "/", "l", ".", "p", "n", "g">>,
     <<"H", "T", "T", "P", ":", "/", "/", "c", "d", "n", ".", "b", "y", "/", "i", "i", "i", "b", "i", "z", ".", "p", "n", "g">>}

\* [], ['https://acme.by', 'http://acme.ibiz.by']
ExportSitesPool ==
    {<<>>, <<<<"h", "t", "t", "p", "s", ":", "/", "/", "a", "c", "m", "e", ".", "b", "y">>, <<"h", "t", "t", "p", ":", "/", "/", "a", "c", "m", "e", ".", "i", "b", "i", "z", ".", "b", "y">>>>}

\* 'acme', 'ibiz', 'iibiz', 'iiibiz', 'Belarusinfo', 'ibelarusinfo'
ExportNamePool ==
    {<<"a", "c", "m", "e">>,
     <<"i", "b", "i", "z">>,
     <<"i", "i", "b", "i", "z">>,
     <<"i", "i", "i", "b", "i", "z">>,
     <<"B", "e", "l", "a", "r", "u", "s", "i", "n", "f", "o">>,
     <<"i", "b", "e", "l", "a", "r", "u", "s", "i", "n", "f", "o">>}

\* [], [{slug: ' ibiz ', url: 'http://ibiz.by/cat/1'}]
CategoriesPool ==
    {<<>>, <<[slug |-> <<" ", "i", "b", "i", "z", " ">>, url |-> <<"h", "t", "t", "p", ":", "/", "/", "i", "b", "i", "z", ".", "b", "y", "/", "c", "a", "t", "/", "1">>]>>}

\* [], [{slug: '', url: 'belarusinfo.by/r/2'}]
RubricsPool ==
    {<<>>, <<[slug |-> <<>>, url |-> <<"b", "e", "l", "a", "r", "u", "s", "i", "n", "f", "o", ".", "b", "y", "/", "r", "/", "2">>]>>}

ExportLines ==
    {ExportCompany(s, sid, su, lu, w, nm, c, r) :
        s \in SourcePool, sid \in SourceIdPool, su \in SourceUrlPool, lu \in LogoUrlPool,
        w \in ExportSitesPool, nm \in ExportNamePool, c \in CategoriesPool, r \in RubricsPool}
    \cup {ExportList(<<>>)} \cup {ExportList(<<nm>>) : nm \in ExportNamePool}
    \cup {BlankLine}

\* export files of one line
ExportFiles == {<<line>> : line \in ExportLines}

InitRewrite ==
    /\ MainIdle
    /\ pc = "rewrite"
    /\ d_in \in ExportFiles
    /\ d_out = <<>>

\* one iteration of `for line in fin` of rewrite_jsonl_file
RewriteLine ==
    /\ pc = "rewrite"
    /\ n <= Len(d_in)
    /\ n' = n + 1
    /\ LET line == d_in[n] IN
       IF line.kind = "blank" THEN UNCHANGED d_out
       ELSE LET obj      == IF line.kind = "company"
                            THEN rewrite_company(line, DefaultCfg, build_legacy_tokens)
                            ELSE line
                obj_line == json_dumps(obj)
            IN  d_out' = Append(d_out,
                                IF contains_any_legacy_token(obj_line, build_legacy_tokens)
                                THEN replace_legacy_tokens(obj_line, build_legacy_tokens)
                                ELSE obj_line)
    /\ UNCHANGED <<inputs, pc, loaded, stats, decisions, aggvars, applyvars, parvars, d_in>>

----------------------------------------------------------------------------
(* Specifications *)

Init == InitMain(RowPoolMain, FilesMain, MaxCompaniesArgs, BOOLEAN)

Next ==
    \/ LoadIbiz
    \/ BuildIndexes
    \/ ReadLine
    \/ EndRead
    \/ Aggregate
    \/ Report
    \/ ApplyBackfill
    \/ ReapplyBackfill

Spec == Init /\ [][Next]_vars

\* runs with --apply over records that share an identifier or have none
InitDup == InitMain(RowPoolMain, FilesDup, MaxCompaniesArgs, {TRUE})

SpecDup == InitDup /\ [][Next]_vars

\* one run per query record, against every secondary dataset of the row pool
InitResolve == InitMain(RowPool, QueryFiles, {0}, {FALSE})

NextResolve ==
    \/ LoadIbiz
    \/ BuildIndexes
    \/ ReadLine

SpecResolve == InitResolve /\ [][NextResolve]_vars

\* the same runs, over names and addresses that hold the separator's character
InitBar == InitMain(BarRowPool, BarQueryFiles, {0}, {FALSE})

SpecBar == InitBar /\ [][NextResolve]_vars

InitPar == InitMain(RowPoolMain, FilesMain, MaxCompaniesArgs, {FALSE})

NextPar ==
    \/ LoadIbiz
    \/ BuildIndexes
    \/ ReadLine
    \/ EndRead
    \/ Aggregate
    \/ Report
    \/ WorkerResolve
    \/ MergeStep

SpecPar == InitPar /\ [][NextPar]_vars

NextDecide == Decide

SpecDecide == InitDecide /\ [][NextDecide]_vars

NextNorm == Normalize

SpecNorm == InitNorm /\ [][NextNorm]_vars

NextRewrite == RewriteLine

SpecRewrite == InitRewrite /\ [][NextRewrite]_vars

----------------------------------------------------------------------------
(* Claims *)

StrongTier == {"direct_source_id", "phone", "email", "unp"}

\* the evidence of a sole candidate meets the trust threshold
MeetsThreshold(evidence, flag) ==
    evidence \cap StrongTier # {} \/ (evidence = {"name_addr"} /\ flag)

\* C1: a MatchDecision returned by decide_match has auto_candidate set only if the
\* mapping holds exactly one candidate and that candidate's evidence meets the trust
\* threshold; more than one candidate gives auto_candidate = None, and a set
\* auto_candidate is the sole candidate.
C1_AutoOnlyForSoleTrustedCandidate ==
    d_out # None =>
        LET d == d_out[1]
            c == d_in.candidates
        IN  /\ d.auto_candidate # None =>
                /\ Cardinality(DOMAIN c) = 1
                /\ \E s \in DOMAIN c :
                     /\ d.auto_candidate = Some(s)
                     /\ MeetsThreshold(c[s], d_in.allow_weak_name_address)
            /\ Cardinality(DOMAIN c) > 1 => d.auto_candidate = None

C1_Witness ==
    /\ d_out # None
    /\ d_out[1].auto_candidate = Some(sub_b2)
    /\ d_in.candidates = (sub_b2 :> {"name_addr"})
    /\ d_in.allow_weak_name_address

\* the outcome and auto_candidate the classification table gives, in its order
TableOutcome(c, flag) ==
    IF Cardinality(DOMAIN c) = 0 THEN <<"no_match", None>>
    ELSE IF Cardinality(DOMAIN c) > 1 THEN <<"ambiguous", None>>
    ELSE LET s == CHOOSE x \in DOMAIN c : TRUE IN
         IF c[s] \cap StrongTier # {} THEN <<"auto", Some(s)>>
         ELSE IF c[s] = {"name_addr"} /\ flag THEN <<"auto_weak_name_addr", Some(s)>>
         ELSE <<"weak_unique", None>>

\* C2: decide_match classifies every candidate mapping into exactly one of the five
\* outcomes, in the table's order: none -> no_match; several -> ambiguous whatever
\* the evidence; one with strong evidence -> auto; one with exactly {name_addr} and
\* the flag -> auto_weak_name_addr; otherwise weak_unique.  A sole candidate with
\* {name_addr} only is never auto.
C2_ClassificationTable ==
    d_out # None =>
        LET d == d_out[1]
            c == d_in.candidates
        IN  /\ d.match_type \in MatchTypes
            /\ <<d.match_type, d.auto_candidate>> =
                 TableOutcome(c, d_in.allow_weak_name_address)
            /\ (\E s \in DOMAIN c : DOMAIN c = {s} /\ c[s] = {"name_addr"})
                 => d.match_type # "auto"

C2_Witness ==
    /\ d_out # None
    /\ d_in.candidates = (sub_a1 :> {"name_addr"})
    /\ ~d_in.allow_weak_name_address
    /\ d_out[1].match_type = "weak_unique"

\* The k-th decision of a run over a file of query records (records with no
\* websites, no cutoff) is the decision for the file's k-th line.
QueryOf(k) == file0[k]

NoUsablePhone(q) == \A i \in 1..Len(q.phones) : Len(DigitsOf(q.phones[i])) < 9

NoEmail(q) == \A i \in 1..Len(q.emails) : Strip(q.emails[i]) = <<>>

NoUsableUnp(q) == Len(DigitsOf(q.unp)) < 6

CompositeKey(name, address) ==
    Casefold(CollapseSpaces(Strip(name))) \o <<"|", "|">>
        \o Casefold(CollapseSpaces(Strip(address)))

KeyAbsent(q) == CompositeKey(q.name, q.address) \notin DOMAIN idx.by_name_addr

NoUsableSignal(q) == NoUsablePhone(q) /\ NoEmail(q) /\ NoUsableUnp(q) /\ KeyAbsent(q)

IdentifierUnknown(q) == Strip(q.source_id) \notin DOMAIN ibiz_companies

\* C3 as stated: a query record with no usable phone, no non-empty email, no usable
\* tax-id and a name+address key absent from the index resolves to no_match.
C3_NoSignalNoMatch ==
    \A k \in 1..Len(decisions) :
        NoUsableSignal(QueryOf(k)) => decisions[k].match_type = "no_match"

\* C3 amended: ... and whose own identifier is not the identifier of an admitted
\* secondary record resolves to no_match.
C3_NoSignalNoDirectNoMatch ==
    \A k \in 1..Len(decisions) :
        (NoUsableSignal(QueryOf(k)) /\ IdentifierUnknown(QueryOf(k)))
            => /\ decisions[k].match_type = "no_match"
               /\ decisions[k].auto_candidate = None
               /\ DOMAIN decisions[k].evidence_by_candidate = {}

\* the record's name is indexed, under another address, and its phone is too short
C3_Witness ==
    \E k \in 1..Len(decisions) :
        /\ NoUsableSignal(QueryOf(k)) /\ IdentifierUnknown(QueryOf(k))
        /\ decisions[k].match_type = "no_match"
        /\ \E key \in DOMAIN idx.by_name_addr :
             StartsWith(key, Casefold(QueryOf(k).name) \o <<"|", "|">>)
        /\ DOMAIN idx.by_phone # {}

NoPhoneHit(q) ==
    \A i \in 1..Len(q.phones) :
        Len(DigitsOf(q.phones[i])) >= 9 => DigitsOf(q.phones[i]) \notin DOMAIN idx.by_phone

NoEmailHit(q) ==
    \A i \in 1..Len(q.emails) : Casefold(Strip(q.emails[i])) \notin DOMAIN idx.by_email

NoUnpHit(q) == Len(DigitsOf(q.unp)) >= 6 => DigitsOf(q.unp) \notin DOMAIN idx.by_unp

CompanyKey(sub) == CompositeKey(ibiz_companies[sub].name, ibiz_companies[sub].address)

\* two admitted secondary records share the composite key the query record has, and
\* the query record hits no other index
SharedKeyOnly(q, s1, s2) ==
    /\ s1 # s2
    /\ CompanyKey(s1) = CompanyKey(s2)
    /\ CompositeKey(q.name, q.address) = CompanyKey(s1)
    /\ CompanyKey(s1) # <<"|", "|">>
    /\ NoPhoneHit(q) /\ NoEmailHit(q) /\ NoUnpHit(q)

\* C5: when two admitted secondary records share a name+address key and a query
\* record matches the index only through that key, both identifiers are candidates,
\* the decision is ambiguous and auto_candidate is None, with the weak-match flag on
\* or off; the index holds both records under the shared key.
C5_SharedKeyIsAmbiguous ==
    \A k \in 1..Len(decisions) :
        \A s1, s2 \in DOMAIN ibiz_companies :
            SharedKeyOnly(QueryOf(k), s1, s2) =>
                /\ {s1, s2} \subseteq idx.by_name_addr[CompanyKey(s1)]
                /\ {s1, s2} \subseteq DOMAIN decisions[k].evidence_by_candidate
                /\ decisions[k].match_type = "ambiguous"
                /\ decisions[k].auto_candidate = None

C5_Witness ==
    /\ args.allow_weak_name_address
    /\ {sub_a1, sub_b2} \subseteq DOMAIN ibiz_companies
    /\ \E k \in 1..Len(decisions) :
         /\ SharedKeyOnly(QueryOf(k), sub_a1, sub_b2)
         /\ decisions[k].evidence_by_candidate =
              (sub_a1 :> {"name_addr"}) @@ (sub_b2 :> {"name_addr"})
         /\ decisions[k].match_type = "ambiguous"

\* C6: after build_ibiz_indexes no secondary record whose normalized tax-id has
\* fewer than 6 digits is in any value set of the tax-id index, and no key of that
\* index is shorter than 6 digits.
C6_ShortUnpNeverIndexed ==
    pc = "read" =>
        /\ \A sub \in DOMAIN ibiz_companies :
             Len(DigitsOf(ibiz_companies[sub].unp)) < 6 =>
                 \A key \in DOMAIN idx.by_unp : sub \notin idx.by_unp[key]
        /\ \A key \in DOMAIN idx.by_unp : Len(key) >= 6

\* one record has five digits and is left out, another is indexed
C6_Witness ==
    /\ pc = "read"
    /\ \E sub \in DOMAIN ibiz_companies : Len(ibiz_companies[sub].unp) = 5
    /\ \E key \in DOMAIN idx.by_unp : idx.by_unp[key] # {}

\* the row load_ibiz_companies kept for a subdomain: the last admitted one
SourceRow(sub) ==
    rows[CHOOSE i \in 1..Len(rows) :
           /\ RowAdmitted(rows[i]) /\ Strip(rows[i].subdomain) = sub
           /\ \A i2 \in (i + 1)..Len(rows) :
                ~(RowAdmitted(rows[i2]) /\ Strip(rows[i2].subdomain) = sub)]

\* the admitted secondary records one of whose phones has these digits
PhoneOwners(digits) ==
    {sub \in DOMAIN ibiz_companies :
       \E i \in 1..Len(SourceRow(sub).phones_json) :
          DigitsOf(SourceRow(sub).phones_json[i]) = digits}

UsableDigits(q) ==
    {DigitsOf(q.phones[i]) : i \in {x \in 1..Len(q.phones) : Len(DigitsOf(q.phones[x])) >= 9}}

\* the query record matches through one usable phone, owned by s alone, and through
\* nothing else
PhoneOnly(q, s) ==
    /\ WebsitesOut(q.websites) = <<>>
    /\ \E p \in UsableDigits(q) :
         /\ PhoneOwners(p) = {s}
         /\ \A p2 \in UsableDigits(q) \ {p} : PhoneOwners(p2) = {}
    /\ NoEmailHit(q) /\ NoUnpHit(q) /\ KeyAbsent(q) /\ IdentifierUnknown(q)

BareHost == <<"e", "x", "a", "m", "p", "l", "e", ".", "b", "y">>

\* C10: a query record with an empty website list that matches only through one
\* usable phone, whose digits are a phone of exactly one admitted secondary record,
\* gets the candidate mapping {that identifier: {phone}} and the decision auto with
\* that identifier; the websites approved are that record's normalized websites, a
\* bare host example.by having become https://example.by.
C10_PhoneOnlyIsAuto ==
    \A k \in 1..Len(decisions) :
        \A s \in DOMAIN ibiz_companies :
            PhoneOnly(QueryOf(k), s) =>
                /\ decisions[k].evidence_by_candidate = (s :> {"phone"})
                /\ decisions[k].match_type = "auto"
                /\ decisions[k].auto_candidate = Some(s)
                /\ ibiz_companies[s].websites = normalize_websites(SourceRow(s).websites_json)
                /\ BareHost \in Range(SourceRow(s).websites_json)
                     => /\ (HttpsScheme \o BareHost) \in Range(ibiz_companies[s].websites)
                        /\ BareHost \notin Range(ibiz_companies[s].websites)

\* the spec's scenario: "+375 29 1234567" indexed, "375291234567" asked for
C10_Witness ==
    \E k \in 1..Len(decisions) :
        /\ PhoneOnly(QueryOf(k), sub_a1)
        /\ QueryOf(k).phones # SourceRow(sub_a1).phones_json
        /\ SourceRow(sub_a1).websites_json = <<BareHost>>
        /\ decisions[k].auto_candidate = Some(sub_a1)
        /\ ibiz_companies[sub_a1].websites = <<HttpsScheme \o BareHost>>

\* the decisions the aggregation loop has consumed so far
Aggregated ==
    IF pc = "aggregate" THEN j - 1
    ELSE IF pc \in {"apply", "done"} THEN Len(decisions)
    ELSE 0

\* the consumed decisions for an identifier that set auto_candidate
AutoIndexes(sid, m) ==
    {k \in 1..m : decisions[k].source_id = sid /\ decisions[k].auto_candidate # None}

LastOf(S) == CHOOSE k \in S : \A k2 \in S : k2 <= k

\* C4: the approved-backfill map has an entry for a query identifier only if some
\* decision for it has auto_candidate set, the value is the auto_candidate of the last
\* such decision in file order, and a decision with auto_candidate None neither adds,
\* changes nor removes an entry: at every point of the aggregation the map is exactly
\* the last set auto_candidate of each identifier among the decisions consumed.
C4_ApprovedMapLastWriteWins ==
    LET m  == Aggregated
        am == agg.auto_matches
    IN  /\ \A sid \in DOMAIN am :
             /\ AutoIndexes(sid, m) # {}
             /\ am[sid] = decisions[LastOf(AutoIndexes(sid, m))].auto_candidate[1]
        /\ \A k \in 1..m :
             decisions[k].auto_candidate # None => decisions[k].source_id \in DOMAIN am

\* two decisions for one identifier name different candidates; the second one stays
C4_Witness ==
    /\ pc = "aggregate" /\ j = 3
    /\ decisions[1].source_id = decisions[2].source_id
    /\ decisions[1].auto_candidate # None
    /\ decisions[2].auto_candidate # None
    /\ decisions[1].auto_candidate # decisions[2].auto_candidate
    /\ agg.auto_matches[decisions[2].source_id] = decisions[2].auto_candidate[1]

\* the records of the input file, in order
InputRecords == SelectSeq(file0, IsRecord)

\* C7: apply_backfill applied twice with the same approved map and secondary dataset
\* leaves the file the first application wrote: the second pass updates zero
\* records, every record the first pass updated having a non-empty website list.
C7_BackfillIdempotent ==
    passes = 2 =>
        /\ file = file1
        /\ result.updated = 0
        /\ \A k \in 1..Len(file1) :
             file1[k] # InputRecords[k] => WebsitesOut(file1[k].websites) # <<>>

C7_Witness ==
    /\ passes = 2
    /\ file = file1
    /\ \E k \in 1..Len(file1) : file1[k] # InputRecords[k]

\* C8: the backfill writer changes a record only if its identifier is a key of the
\* approved map and its normalized website list is empty; every other record is
\* written back unchanged, in the original order; an updated record differs from its
\* input only in its website list, which is the matched secondary record's normalized
\* websites.  A count that differs from the size of the map ends the run normally,
\* with a note.
C8_BackfillFrame ==
    passes >= 1 =>
        LET am == agg.auto_matches IN
        /\ Len(file1) = Len(InputRecords)
        /\ \A k \in 1..Len(file1) :
             file1[k] # InputRecords[k] =>
                 LET old == InputRecords[k]
                     sid == Strip(old.source_id)
                 IN  /\ sid \in DOMAIN am
                     /\ WebsitesOut(old.websites) = <<>>
                     /\ file1[k] = [old EXCEPT !.websites =
                                       normalize_websites(SourceRow(am[sid]).websites_json)]
        /\ pc = "done"
        /\ passes = 1 =>
             /\ result.updated = Cardinality({k \in 1..Len(file1) : file1[k] # InputRecords[k]})
             /\ result.note <=> result.updated # Cardinality(DOMAIN am)

\* two records share an identifier: both are updated, the map has one entry
C8_Witness ==
    /\ passes = 1
    /\ result.note
    /\ result.updated > Cardinality(DOMAIN agg.auto_matches)
    /\ \E k \in 1..Len(file1) : file1[k] # InputRecords[k]

IsSome(x) == x # None

\* the workers' decisions, in file order
SlotDecisions ==
    LET some == SelectSeq([k \in 1..Len(file0) |-> slots[k]], IsSome) IN
    [k \in 1..Len(some) |-> some[k][1]]

\* C9: with no record cutoff the decision for a record depends only on the record,
\* the index and the weak-match flag; resolving the records in any order and merging
\* the decisions in file order gives the decisions, the per-outcome counts, the
\* evidence-combination counts and the approved-backfill map of the sequential pass.
C9_AnyOrderSameAggregate ==
    (Merged /\ args.max_companies = 0) =>
        /\ SlotDecisions = decisions
        /\ par.counts = agg.counts
        /\ par.by_prefix_and_type = agg.by_prefix_and_type
        /\ par.reason_combo_counts = agg.reason_combo_counts
        /\ par.auto_matches = agg.auto_matches

\* the second line is resolved first; both lines have the same identifier and
\* different candidates
C9_Witness ==
    /\ Merged
    /\ args.max_companies = 0
    /\ Len(worder) = 2 /\ worder[1] > worder[2]
    /\ Len(decisions) = 2
    /\ decisions[1].source_id = decisions[2].source_id
    /\ decisions[1].auto_candidate # None
    /\ decisions[2].auto_candidate # None
    /\ decisions[1].auto_candidate # decisions[2].auto_candidate
    /\ par.auto_matches[decisions[1].source_id] = decisions[2].auto_candidate[1]

\* C11: normalization is idempotent: normalize_phone, normalize_email and
\* normalize_websites applied to their own result return that result.
C11_NormalizersIdempotent ==
    (pc = "norm" /\ Len(d_out) = 2) => d_out[2] = d_out[1]

\* a mailto link and a padded bare host: the first pass drops one and gives the
\* other a scheme, the second pass changes nothing
C11_Witness ==
    /\ pc = "norm" /\ Len(d_out) = 2
    /\ d_in.fn = "normalize_websites"
    /\ Len(d_in.value) = 2
    /\ StartsWith(d_in.value[1], MailtoScheme)
    /\ d_in.value[2] = <<" ">> \o BareHost \o <<" ">>
    /\ d_out[1] = <<HttpsScheme \o BareHost>>
    /\ d_out[2] = d_out[1]

\* the values of an index under the keys of K that it holds
Under(index, K) == UNION {index[key] : key \in K \cap DOMAIN index}

\* the secondary identifiers a signal proposes for a query record
Proposed(tag, q) ==
    IF tag = "direct_source_id"
    THEN {Strip(q.source_id)} \cap (DOMAIN ibiz_companies \ {<<>>})
    ELSE IF tag = "phone" THEN Under(idx.by_phone, UsableDigits(q))
    ELSE IF tag = "email"
    THEN Under(idx.by_email,
               {Casefold(Strip(q.emails[i])) : i \in 1..Len(q.emails)} \ {<<>>})
    ELSE IF tag = "unp"
    THEN Under(idx.by_unp, IF Len(DigitsOf(q.unp)) >= 6 THEN {DigitsOf(q.unp)} ELSE {})
    ELSE Under(idx.by_name_addr, {CompositeKey(q.name, q.address)} \ {<<"|", "|">>})

FiveSignals == {"direct_source_id", "phone", "email", "unp", "name_addr"}

\* C12: the keys of the mapping collect_candidates returns are exactly the secondary
\* identifiers proposed by at least one of the five signals, the tag set of each is
\* exactly the set of signals that proposed it, and an identifier proposed by several
\* signals is one candidate: alone, it never makes the decision ambiguous.
C12_CandidatesAreUnionOfSignals ==
    \A k \in 1..Len(decisions) :
        LET q == QueryOf(k)
            c == decisions[k].evidence_by_candidate
            ids == UNION {Proposed(tag, q) : tag \in FiveSignals}
        IN  /\ DOMAIN c = ids
            /\ \A s \in ids : c[s] = {tag \in FiveSignals : s \in Proposed(tag, q)}
            /\ Cardinality(ids) = 1 => decisions[k].match_type # "ambiguous"
            /\ decisions[k].match_type = "ambiguous" <=> Cardinality(ids) > 1

\* one secondary record reached by all five signals: one candidate, five tags, auto
C12_Witness ==
    \E k \in 1..Len(decisions) :
        /\ decisions[k].evidence_by_candidate = (sub_a1 :> FiveSignals)
        /\ \A tag \in FiveSignals : Proposed(tag, QueryOf(k)) = {sub_a1}
        /\ decisions[k].match_type = "auto"

\* the records among the first k of the input file that have no websites
MissingUpTo(k) == Cardinality({i \in 1..k : MissingWebsites(InputRecords[i])})

\* the k-th record was resolved in this run: it has no websites and the cutoff had
\* not been reached when it was read
Resolved(k) ==
    /\ MissingWebsites(InputRecords[k])
    /\ args.max_companies = 0 \/ MissingUpTo(k) <= args.max_companies

\* the decision the run made for the k-th record
OwnDecision(k) == decisions[MissingUpTo(k)]

\* the first apply_backfill replaced the k-th record's website list
Backfilled(k) == file1[k] # InputRecords[k]

\* C13: in a run with --apply, every record whose website list is replaced with the
\* websites of secondary record S was itself resolved in that run to a decision with
\* auto_candidate = S; no record whose own decision was no_match, ambiguous or
\* weak_unique and no record skipped by the cutoff is backfilled.
C13_BackfilledOnlyByOwnDecision ==
    passes >= 1 =>
        \A k \in 1..Len(file1) :
            Backfilled(k) =>
                /\ Resolved(k)
                /\ OwnDecision(k).auto_candidate =
                     Some(agg.auto_matches[Strip(InputRecords[k].source_id)])

\* C14: every line rewrite_jsonl_file writes contains none of the legacy tokens
\* "ibiz" and "belarusinfo", compared case-insensitively: after the final guard's one
\* replacement pass over the serialized line no occurrence of a token remains.
C14_NoLegacyTokenWritten ==
    pc = "rewrite" =>
        \A k \in 1..Len(d_out) :
            \A tok \in {<<"i", "b", "i", "z">>,
                         <<"b", "e", "l", "a", "r", "u", "s", "i", "n", "f", "o">>} :
                ~Contains(Casefold(d_out[k]), tok)

\* the normalized name and address of a record
NormalizedPair(name, address) ==
    <<Casefold(CollapseSpaces(Strip(name))), Casefold(CollapseSpaces(Strip(address)))>>

\* C15: the name+address composite key is injective on normalized pairs: two
\* records have the same key only if their normalized names are equal and their
\* normalized addresses are equal, so the name_addr tag is only given to a secondary
\* record whose normalized name and address both equal the query record's.
C15_CompositeKeyInjective ==
    /\ \A key \in DOMAIN idx.by_name_addr :
         \A s1, s2 \in idx.by_name_addr[key] :
             NormalizedPair(ibiz_companies[s1].name, ibiz_companies[s1].address)
                 = NormalizedPair(ibiz_companies[s2].name, ibiz_companies[s2].address)
    /\ \A k \in 1..Len(decisions) :
         \A s \in DOMAIN decisions[k].evidence_by_candidate :
             "name_addr" \in decisions[k].evidence_by_candidate[s] =>
                 NormalizedPair(QueryOf(k).name, QueryOf(k).address)
                     = NormalizedPair(ibiz_companies[s].name, ibiz_companies[s].address)

====
